---- MODULE Spec2Model ----
(***************************************************************************)
(* A model of snappynt.ManifoldAP: one ManifoldAP instance, its stored     *)
(* arithmetic invariants, the fixed-precision computation steps and the    *)
(* escalation drivers that retry them with growing (prec, degree).         *)
(*                                                                         *)
(* The exact-algebra backend (snappy's find_field and express, Sage's      *)
(* NumberField and QuaternionAlgebra) is the environment: each of its      *)
(* answers is drawn from a small set when the code asks for it.            *)
(*                                                                         *)
(* A second part models snappynt.field_isomorphisms on imaginary quadratic *)
(* fields, with exact arithmetic.                                          *)
(***************************************************************************)
EXTENDS Integers, Sequences, FiniteSets, TLC

\* ------------------------------------------------------------------ bounds
\* The precision ceiling a driver is given (max_prec); starting precisions are
\* drawn from 1..MaxPrec+1, below, at and above the ceiling.
MaxPrec == 2
\* The degree ceiling a driver is given (max_degree); starting degrees are
\* drawn from 1..MaxDegree+1.
MaxDegree == 2
\* A driver's loop is followed for at most MaxAttempts attempts.
MaxAttempts == 3
\* Number of method calls followed on the one instance.
MaxCalls == 2
\* Signatures (r, c) of recognized fields: r in 0..MaxReal, c in 1..MaxComplex
\* (the trace field of a hyperbolic 3-manifold has a complex place).
MaxReal == 1
MaxComplex == 1
\* field_isomorphisms: complex numbers and field elements have coordinates in
\* -MaxCoordinate..MaxCoordinate, in units of 1/4.
MaxCoordinate == 8
\* The increments of a well-formed driver call are drawn from 1..MaxIncrement.
MaxIncrement == 2

\* ------------------------------------------------------------- the values
\* Python's None, and a present value v.  An attribute is None or Some(v).
None == <<>>
Some(v) == <<v>>

\* A number field, known to the model by its signature: r real places and
\* c complex places.
Fields ==
    {[r |-> a, c |-> b] : a \in 0..MaxReal, b \in 1..MaxComplex}

\* Sage's NumberField.signature(): (number of real places, number of complex places).
signature(field) == <<field.r, field.c>>

\* Prime ideals: p the rational prime below, f the residue degree (so the
\* absolute norm is p^f), k tells apart the primes above the same p.
PrimeIdeals ==
    {[p |-> 3, f |-> 2, k |-> 1]}

\* The generator lists find_field can return: each generator is known by the
\* set of prime ideals dividing its denominator ideal.
GeneratorLists ==
    {<<{}>>} \cup {<<{}, {P}>> : P \in PrimeIdeals}

\* The numerical root (an ApproximateAlgebraicNumber) that find_field returns
\* with a field: the primitive element of that field.
NumericalRoot(field) == [root_of |-> field]

\* find_field(prec, degree, optimize=True): None, or the triple
\* (field, numerical root, exact generators).
FindFieldResults ==
    {None} \cup
    {Some([field |-> f, root |-> NumericalRoot(f), gens |-> g]) :
        f \in Fields, g \in GeneratorLists}

\* Python's bool() of find_field's answer: None is falsy, a 3-tuple truthy.
bool(exact_field_data) == exact_field_data # None

\* Python truthiness of an attribute holding None or a Sage parent (a field,
\* an algebra): None is falsy, a parent is truthy.
Truthy(attribute) == attribute # None

\* Python truthiness of an attribute holding None or a list.
TruthyList(attribute) == attribute # None /\ Len(attribute[1]) > 0

\* The outcome of a call: a returned value or a raised error.
Return(value) == [raised |-> FALSE, ret |-> Some(value)]
Raise == [raised |-> TRUE, ret |-> None]

\* DictPut on a dict that is cleared first.
DictReset(dict, key, value) ==
    [k \in {key} |-> value]

\* dict[key] = value
DictPut(dict, key, value) ==
    [k \in (DOMAIN dict) \cup {key} |-> IF k = key THEN value ELSE dict[k]]

\* ------------------------------------------------------------------ state
VARIABLES
    trace_field,
    trace_field_numerical_root,
    trace_field_generators,
    trace_field_prec_record,
    invariant_trace_field,
    invariant_trace_field_numerical_root,
    invariant_trace_field_generators,
    invariant_trace_field_prec_record,
    quaternion_algebra,
    quaternion_algebra_ramified_places,
    quaternion_algebra_ramified_places_residue_characteristics,
    invariant_quaternion_algebra,
    invariant_quaternion_algebra_ramified_places,
    invariant_quaternion_algebra_ramified_places_residue_characteristics,
    denominators,
    denominator_residue_characteristics,
    call,
    ncalls

trace_field_vars ==
    <<trace_field, trace_field_numerical_root, trace_field_generators,
      trace_field_prec_record>>

invariant_trace_field_vars ==
    <<invariant_trace_field, invariant_trace_field_numerical_root,
      invariant_trace_field_generators, invariant_trace_field_prec_record>>

quaternion_algebra_vars ==
    <<quaternion_algebra, quaternion_algebra_ramified_places,
      quaternion_algebra_ramified_places_residue_characteristics>>

invariant_quaternion_algebra_vars ==
    <<invariant_quaternion_algebra, invariant_quaternion_algebra_ramified_places,
      invariant_quaternion_algebra_ramified_places_residue_characteristics>>

denominators_vars ==
    <<denominators, denominator_residue_characteristics>>

vars ==
    <<trace_field_vars, invariant_trace_field_vars, quaternion_algebra_vars,
      invariant_quaternion_algebra_vars, denominators_vars, call, ncalls>>

\* ---------------------------------------------------------------- backend
\* Ideal.absolute_norm(): the norm of a prime ideal above p of residue degree f.
absolute_norm(ideal) == ideal.p ^ ideal.f

\* list.sort() of a duplicate-free collection of integers: the increasing list.
RECURSIVE sort(_)
sort(S) ==
    IF S = {} THEN <<>>
    ELSE LET m == CHOOSE x \in S : \A y \in S : x <= y
         IN <<m>> \o sort(S \ {m})

\* default_starting_prec (line 28), the precision at which
\* compute_approximate_hilbert_symbol asks for the group.
default_starting_prec == 1000

\* defining_function(prec) (lines 84-85): the holonomy representation of the
\* whole fundamental group G, the first term of its subgroup series.
defining_function(prec) == [group |-> "G", term |-> 1, bits_prec |-> prec]

\* irreducible_subgroups.find_hilbert_symbol_words(group): a pair of words g, h
\* of the group it is given, with g not parabolic and <g, h> irreducible; an
\* error when no such pair exists.
find_hilbert_symbol_words(group, words_found) ==
    IF words_found
      THEN Return(<<[word |-> "g", term |-> group.term],
                    [word |-> "h", term |-> group.term]>>)
      ELSE Raise

\* compute_approximate_hilbert_symbol(power) (lines 261-271): the approximate
\* numbers trace(g)^2 - 4 and trace([g, h]) - 2 for the words selected in
\* defining_function(default_starting_prec); power is not read, and an error
\* of the word selection is not caught.
compute_approximate_hilbert_symbol(power, words_found) ==
    LET words == find_hilbert_symbol_words(defining_function(default_starting_prec),
                                           words_found)
    IN  IF words.raised THEN Raise
        ELSE Return(<<[trace_of |-> <<words.ret[1][1]>>, minus |-> 4, squared |-> TRUE],
                      [trace_of |-> words.ret[1], minus |-> 2, squared |-> FALSE]>>)

\* primitive_element.express(approximate_entry, prec): None when no relation
\* is found at this precision, else the entry written exactly in powers of the
\* primitive element.
express(primitive_element, approximate_entry, found) ==
    IF found
      THEN Some([in_terms_of |-> primitive_element, exactly |-> approximate_entry])
      ELSE None

\* What Sage can find out about QuaternionAlgebra(field, a, b): the number of
\* real places of the field at which it ramifies, and the factorization of its
\* discriminant, a list of (prime ideal, multiplicity).
AlgebraInvariants(field) ==
    {[real_ramification |-> n, discriminant |-> d] :
        n \in 0..field.r,
        d \in {<<>>} \cup {<<[ideal |-> P, multiplicity |-> 1]>> : P \in PrimeIdeals}}

\* QuaternionAlgebra(field, first_entry, second_entry), with what Sage finds
\* out about it.
QuaternionAlgebra(field, first_entry, second_entry, invariants) ==
    [base |-> field, a |-> first_entry, b |-> second_entry,
     real_ramification |-> invariants.real_ramification,
     discriminant |-> invariants.discriminant]

\* misc_functions.ramified_real_places(algebra): the real places at which the
\* algebra ramifies, numbered 1..n.
ramified_real_places(algebra) == 1..algebra.real_ramification

\* denominatorsforsnappy.find_prime_factors_in_a_set(norms): the rational
\* primes dividing some element of the set.
find_prime_factors_in_a_set(norms) ==
    {q \in UNION {2..n : n \in norms} :
        /\ \E n \in norms : n % q = 0
        /\ \A d \in 2..(q - 1) : q % d # 0}

\* --------------------------------------------------------- one attempt
\* What a driver (or a direct call) passed to a fixed-precision step and how
\* the step went: recognition is "skipped" when the step used a field that was
\* already known, words tells how the word selection of the Hilbert symbol went
\* ("skipped" when the step did not come to it), ok tells whether the step
\* computed its invariant.
Attempt(prec, degree, recognition, words, ok) ==
    [prec |-> prec, degree |-> degree, recognition |-> recognition, words |-> words,
     ok |-> ok]

Recognition(exact_field_data) ==
    IF exact_field_data # None THEN "succeeded" ELSE "failed"

\* StoreIfFound without the test for success: a failure stores None.
StoreAlways(stored, exact_field_data, component) ==
    IF exact_field_data # None THEN Some(exact_field_data[1][component]) ELSE None

\* Lines 100-103: an attribute of the field is overwritten only when find_field
\* answered; a failed attempt leaves what was stored.
StoreIfFound(stored, exact_field_data, component) ==
    IF exact_field_data # None THEN Some(exact_field_data[1][component]) ELSE stored

\* RecordAttempt moved under the test for success: a failure leaves no entry.
RecordAttemptOnSuccess(record, prec, degree, exact_field_data) ==
    IF exact_field_data # None THEN DictPut(record, <<prec, degree>>, TRUE) ELSE record

\* Lines 99 and 119: every attempt is entered in the record under its
\* (prec, degree), whether or not find_field answered.
RecordAttempt(record, prec, degree, exact_field_data) ==
    DictPut(record, <<prec, degree>>, bool(exact_field_data))

\* compute_trace_field_fixed_prec(prec, degree), find_field answering
\* exact_field_data.  It returns self.trace_field, the value of trace_field'.
compute_trace_field_fixed_prec(prec, degree, exact_field_data) ==
    /\ trace_field_prec_record' =
           RecordAttempt(trace_field_prec_record, prec, degree, exact_field_data)
    /\ trace_field' = StoreIfFound(trace_field, exact_field_data, "field")
    /\ trace_field_numerical_root' =
           StoreIfFound(trace_field_numerical_root, exact_field_data, "root")
    /\ trace_field_generators' =
           StoreIfFound(trace_field_generators, exact_field_data, "gens")

\* compute_invariant_trace_field_fixed_prec(prec, degree); it returns
\* self.invariant_trace_field, the value of invariant_trace_field'.
compute_invariant_trace_field_fixed_prec(prec, degree, exact_field_data) ==
    /\ invariant_trace_field_prec_record' =
           RecordAttempt(invariant_trace_field_prec_record, prec, degree,
                         exact_field_data)
    /\ invariant_trace_field' =
           StoreIfFound(invariant_trace_field, exact_field_data, "field")
    /\ invariant_trace_field_numerical_root' =
           StoreIfFound(invariant_trace_field_numerical_root, exact_field_data, "root")
    /\ invariant_trace_field_generators' =
           StoreIfFound(invariant_trace_field_generators, exact_field_data, "gens")

\* The three attributes a successful quaternion-algebra build writes (lines
\* 302-316 and 342-358): the algebra, its ramified places (the prime ideals of
\* the discriminant's factorization, multiplicities dropped) and the sorted
\* list of their absolute norms.
BuiltAlgebra(algebra) ==
    LET discriminant_list == algebra.discriminant
        places == [i \in 1..Len(discriminant_list) |-> discriminant_list[i].ideal]
    IN  <<Some(algebra),
          Some(places),
          Some(sort({absolute_norm(places[i]) : i \in 1..Len(places)}))>>

\* compute_quaternion_algebra_fixed_prec storing whatever the build gave: a
\* failed expression clears the stored algebra.
compute_quaternion_algebra_fixed_prec_clearing(prec, degree, exact_field_data, words_found, first_found, second_found, invariants) ==
    /\ IF ~Truthy(trace_field)
         THEN compute_trace_field_fixed_prec(prec, degree, exact_field_data)
         ELSE UNCHANGED trace_field_vars
    /\ IF ~Truthy(trace_field') \/ compute_approximate_hilbert_symbol(1, words_found).raised
         THEN UNCHANGED quaternion_algebra_vars
         ELSE LET primitive_element == trace_field_numerical_root'[1]
                  approximate ==
                      compute_approximate_hilbert_symbol(1, words_found).ret[1]
                  first_entry == express(primitive_element, approximate[1], first_found)
                  second_entry == express(primitive_element, approximate[2], second_found)
              IN  IF first_entry = None \/ second_entry = None
                    THEN /\ quaternion_algebra' = None
                         /\ UNCHANGED <<quaternion_algebra_ramified_places,
                               quaternion_algebra_ramified_places_residue_characteristics>>
                    ELSE LET built == BuiltAlgebra(QuaternionAlgebra(
                                          trace_field'[1], first_entry, second_entry,
                                          invariants))
                         IN  /\ quaternion_algebra' = built[1]
                             /\ quaternion_algebra_ramified_places' = built[2]
                             /\ quaternion_algebra_ramified_places_residue_characteristics'
                                    = built[3]
    /\ UNCHANGED <<invariant_trace_field_vars, invariant_quaternion_algebra_vars,
                   denominators_vars>>

\* compute_quaternion_algebra_fixed_prec running the recognition step whether or
\* not the trace field is known.
compute_quaternion_algebra_fixed_prec_recomputing(prec, degree, exact_field_data, words_found, first_found, second_found, invariants) ==
    /\ compute_trace_field_fixed_prec(prec, degree, exact_field_data)
    /\ IF ~Truthy(trace_field') \/ compute_approximate_hilbert_symbol(1, words_found).raised
         THEN UNCHANGED quaternion_algebra_vars
         ELSE LET primitive_element == trace_field_numerical_root'[1]
                  approximate ==
                      compute_approximate_hilbert_symbol(1, words_found).ret[1]
                  first_entry == express(primitive_element, approximate[1], first_found)
                  second_entry == express(primitive_element, approximate[2], second_found)
              IN  IF first_entry = None \/ second_entry = None
                    THEN UNCHANGED quaternion_algebra_vars
                    ELSE LET built == BuiltAlgebra(QuaternionAlgebra(
                                          trace_field'[1], first_entry, second_entry,
                                          invariants))
                         IN  /\ quaternion_algebra' = built[1]
                             /\ quaternion_algebra_ramified_places' = built[2]
                             /\ quaternion_algebra_ramified_places_residue_characteristics'
                                    = built[3]
    /\ UNCHANGED <<invariant_trace_field_vars, invariant_quaternion_algebra_vars,
                   denominators_vars>>

\* compute_quaternion_algebra_fixed_prec(prec, degree): find_field answers
\* exact_field_data when it is asked, express answers first_entry and
\* second_entry, Sage answers invariants.  ok' tells whether the algebra was
\* built: the method returns self.quaternion_algebra then, and None otherwise.
compute_quaternion_algebra_fixed_prec(prec, degree, exact_field_data, words_found, first_found, second_found, invariants) ==
    /\ IF ~Truthy(trace_field)
         THEN compute_trace_field_fixed_prec(prec, degree, exact_field_data)
         ELSE UNCHANGED trace_field_vars
    /\ IF ~Truthy(trace_field') \/ compute_approximate_hilbert_symbol(1, words_found).raised
         THEN UNCHANGED quaternion_algebra_vars
         ELSE LET primitive_element == trace_field_numerical_root'[1]
                  approximate ==
                      compute_approximate_hilbert_symbol(1, words_found).ret[1]
                  first_entry == express(primitive_element, approximate[1], first_found)
                  second_entry == express(primitive_element, approximate[2], second_found)
              IN  IF first_entry = None \/ second_entry = None
                    THEN UNCHANGED quaternion_algebra_vars
                    ELSE LET built == BuiltAlgebra(QuaternionAlgebra(
                                          trace_field'[1], first_entry, second_entry,
                                          invariants))
                         IN  /\ quaternion_algebra' = built[1]
                             /\ quaternion_algebra_ramified_places' = built[2]
                             /\ quaternion_algebra_ramified_places_residue_characteristics'
                                    = built[3]
    /\ UNCHANGED <<invariant_trace_field_vars, invariant_quaternion_algebra_vars,
                   denominators_vars>>

\* compute_invariant_quaternion_algebra_fixed_prec as a copy of the ordinary
\* method in which the call of the recognition step was not renamed.
compute_invariant_quaternion_algebra_fixed_prec_unrenamed(prec, degree, exact_field_data, words_found, first_found, second_found, invariants) ==
    /\ IF ~Truthy(invariant_trace_field)
         THEN /\ compute_trace_field_fixed_prec(prec, degree, exact_field_data)
              /\ UNCHANGED invariant_trace_field_vars
         ELSE UNCHANGED <<trace_field_vars, invariant_trace_field_vars>>
    /\ IF \/ ~Truthy(invariant_trace_field')
          \/ compute_approximate_hilbert_symbol(2, words_found).raised
         THEN UNCHANGED invariant_quaternion_algebra_vars
         ELSE LET primitive_element == invariant_trace_field_numerical_root'[1]
                  approximate ==
                      compute_approximate_hilbert_symbol(2, words_found).ret[1]
                  first_entry == express(primitive_element, approximate[1], first_found)
                  second_entry == express(primitive_element, approximate[2], second_found)
              IN  IF first_entry = None \/ second_entry = None
                    THEN UNCHANGED invariant_quaternion_algebra_vars
                    ELSE LET built == BuiltAlgebra(QuaternionAlgebra(
                                          invariant_trace_field'[1], first_entry,
                                          second_entry, invariants))
                         IN  /\ invariant_quaternion_algebra' = built[1]
                             /\ invariant_quaternion_algebra_ramified_places' = built[2]
                             /\ invariant_quaternion_algebra_ramified_places_residue_characteristics'
                                    = built[3]
    /\ UNCHANGED <<quaternion_algebra_vars, denominators_vars>>

\* compute_invariant_quaternion_algebra_fixed_prec(prec, degree).
compute_invariant_quaternion_algebra_fixed_prec(prec, degree, exact_field_data, words_found, first_found, second_found, invariants) ==
    /\ IF ~Truthy(invariant_trace_field)
         THEN compute_invariant_trace_field_fixed_prec(prec, degree, exact_field_data)
         ELSE UNCHANGED invariant_trace_field_vars
    /\ IF \/ ~Truthy(invariant_trace_field')
          \/ compute_approximate_hilbert_symbol(2, words_found).raised
         THEN UNCHANGED invariant_quaternion_algebra_vars
         ELSE LET primitive_element == invariant_trace_field_numerical_root'[1]
                  approximate ==
                      compute_approximate_hilbert_symbol(2, words_found).ret[1]
                  first_entry == express(primitive_element, approximate[1], first_found)
                  second_entry == express(primitive_element, approximate[2], second_found)
              IN  IF first_entry = None \/ second_entry = None
                    THEN UNCHANGED invariant_quaternion_algebra_vars
                    ELSE LET built == BuiltAlgebra(QuaternionAlgebra(
                                          invariant_trace_field'[1], first_entry,
                                          second_entry, invariants))
                         IN  /\ invariant_quaternion_algebra' = built[1]
                             /\ invariant_quaternion_algebra_ramified_places' = built[2]
                             /\ invariant_quaternion_algebra_ramified_places_residue_characteristics'
                                    = built[3]
    /\ UNCHANGED <<trace_field_vars, quaternion_algebra_vars, denominators_vars>>

\* prime_ideals looking at the first generator only.
prime_ideals_of_first(generators) ==
    generators[1]

\* Lines 483-490: the prime ideals dividing the denominator ideal of some
\* generator.
prime_ideals(generators) ==
    UNION {generators[i] : i \in 1..Len(generators)}

\* compute_denominators_fixed_prec without the early return of line 482: with
\* no generators it stores the empty set.
compute_denominators_fixed_prec_unguarded(prec, degree, exact_field_data) ==
    /\ IF ~TruthyList(trace_field_generators)
         THEN compute_trace_field_fixed_prec(prec, degree, exact_field_data)
         ELSE UNCHANGED trace_field_vars
    /\ denominators' =
           Some(IF TruthyList(trace_field_generators')
                  THEN prime_ideals(trace_field_generators'[1])
                  ELSE {})
    /\ denominator_residue_characteristics' = Some({})
    /\ UNCHANGED <<invariant_trace_field_vars, quaternion_algebra_vars,
                   invariant_quaternion_algebra_vars>>

\* compute_denominators_fixed_prec(prec, degree).  It returns the set of prime
\* ideals it stored, or None when the generators are still unknown.
compute_denominators_fixed_prec(prec, degree, exact_field_data) ==
    /\ IF ~TruthyList(trace_field_generators)
         THEN compute_trace_field_fixed_prec(prec, degree, exact_field_data)
         ELSE UNCHANGED trace_field_vars
    /\ IF ~TruthyList(trace_field_generators')
         THEN UNCHANGED denominators_vars
         ELSE /\ denominators' = Some(prime_ideals(trace_field_generators'[1]))
              /\ denominator_residue_characteristics' =
                     Some(find_prime_factors_in_a_set(
                              {absolute_norm(ideal) :
                                  ideal \in prime_ideals(trace_field_generators'[1])}))
    /\ UNCHANGED <<invariant_trace_field_vars, quaternion_algebra_vars,
                   invariant_quaternion_algebra_vars>>

\* ------------------------------------------------------------- the calls
\* The method call in progress or last finished on the instance: its name and
\* arguments, the driver's loop variables prec and degree, the attempts made so
\* far, and once pc = "done" the value returned (ret) or raised = TRUE.
Drivers ==
    {"compute_trace_field", "compute_invariant_trace_field",
     "compute_quaternion_algebra", "compute_invariant_quaternion_algebra",
     "compute_denominators"}

\* The arguments the model draws: the ceilings are MaxPrec and MaxDegree, the
\* starting values lie below, at or above them, and an increment is negative,
\* zero or positive (the code validates none of them).
Precisions == 1..(MaxPrec + 1)
Degrees == 1..(MaxDegree + 1)
Increments == {-1, 0, 1}

Idle ==
    [op |-> "__init__", starting_prec |-> 0, starting_degree |-> 0,
     prec_increment |-> 0, degree_increment |-> 0, max_prec |-> 0, max_degree |-> 0,
     use_last_known_failed |-> FALSE, recorded_failed |-> {},
     prec |-> 0, degree |-> 0, attempts |-> <<>>, pc |-> "done", ret |-> None,
     raised |-> FALSE]

\* A finished call of a method that takes one (prec, degree) or none.
Returned(op, prec, degree, attempts, ret, raised) ==
    [Idle EXCEPT !.op = op, !.starting_prec = prec, !.starting_degree = degree,
                 !.max_prec = prec, !.max_degree = degree, !.prec = prec,
                 !.degree = degree, !.attempts = attempts, !.ret = ret,
                 !.raised = raised]

\* Exhausted with the ceiling test written as "past the ceiling".
ExhaustedPast(prec, degree, max_prec, max_degree) ==
    prec > max_prec /\ degree > max_degree

\* Line 174: the attempt just made was at the ceiling.
Exhausted(prec, degree, max_prec, max_degree) ==
    prec = max_prec /\ degree = max_degree

\* Escalate with the increment subtracted.
EscalateDown(value, increment, maximum) ==
    IF value + increment <= maximum THEN value - increment ELSE maximum

\* Escalate with the assignment of the new value lost.
EscalateStuck(value, increment, maximum) ==
    value

\* Lines 176-179 (precision) and 180-183 (degree): add the increment, clamped to
\* the maximum.
Escalate(value, increment, maximum) ==
    IF value + increment <= maximum THEN value + increment ELSE maximum

\* RaisedIn with the error caught in the loop and taken for a failed attempt.
RaisedAbsorbed(c, attempt) ==
    [c EXCEPT !.attempts = Append(@, attempt)]

\* An error raised by the fixed-precision step of a pass leaves the driver at
\* once: nothing in lines 386-405 catches it.
RaisedIn(c, attempt) ==
    [c EXCEPT !.attempts = Append(@, attempt), !.pc = "done", !.ret = None,
              !.raised = TRUE]

\* Lines 174-184, the same in the five drivers: what follows the fixed-precision
\* step of one pass of the loop.  again is the while condition as the next test
\* finds it, result the attribute the driver returns when the loop ends.
AfterAttempt(c, attempt, again, result) ==
    LET made == [c EXCEPT !.attempts = Append(@, attempt)]
    IN  IF Exhausted(c.prec, c.degree, c.max_prec, c.max_degree)
          THEN [made EXCEPT !.pc = "done", !.ret = None]
          ELSE LET next == [made EXCEPT
                              !.prec = Escalate(c.prec, c.prec_increment, c.max_prec),
                              !.degree = Escalate(c.degree, c.degree_increment,
                                                  c.max_degree)]
               IN  IF again THEN next
                   ELSE [next EXCEPT !.pc = "done", !.ret = result]

\* The while condition when the driver is entered: the trace-field drivers test
\* a local that starts as None (lines 163, 204), the others test the attribute
\* itself (lines 386, 425, 515).
EntersLoop(op) ==
    CASE op = "compute_quaternion_algebra" -> quaternion_algebra = None
      [] op = "compute_invariant_quaternion_algebra" ->
             invariant_quaternion_algebra = None
      [] op = "compute_denominators" -> denominators = None
      [] OTHER -> TRUE

\* The attribute a driver returns when its loop ends without reaching the
\* ceiling (lines 184, 225, 406, 445, 533).
Result(op) ==
    CASE op = "compute_trace_field" -> trace_field
      [] op = "compute_invariant_trace_field" -> invariant_trace_field
      [] op = "compute_quaternion_algebra" -> quaternion_algebra
      [] op = "compute_invariant_quaternion_algebra" -> invariant_quaternion_algebra
      [] op = "compute_denominators" -> denominators

object_vars ==
    <<trace_field_vars, invariant_trace_field_vars, quaternion_algebra_vars,
      invariant_quaternion_algebra_vars, denominators_vars>>

\* __init__ (lines 52-68) of an instance constructed with
\* delay_computations=True: nothing is computed yet.
Init ==
    /\ trace_field = None
    /\ trace_field_numerical_root = None
    /\ trace_field_generators = None
    /\ trace_field_prec_record = <<>>
    /\ invariant_trace_field = None
    /\ invariant_trace_field_numerical_root = None
    /\ invariant_trace_field_generators = None
    /\ invariant_trace_field_prec_record = <<>>
    /\ quaternion_algebra = None
    /\ quaternion_algebra_ramified_places = None
    /\ quaternion_algebra_ramified_places_residue_characteristics = None
    /\ invariant_quaternion_algebra = None
    /\ invariant_quaternion_algebra_ramified_places = None
    /\ invariant_quaternion_algebra_ramified_places_residue_characteristics = None
    /\ denominators = None
    /\ denominator_residue_characteristics = None
    /\ call = Idle
    /\ ncalls = 0

CanCall ==
    /\ call.pc = "done"
    /\ ncalls < MaxCalls

\* The record a driver's recognition attempts are entered in.
prec_record(op) ==
    IF op \in {"compute_invariant_trace_field", "compute_invariant_quaternion_algebra"}
      THEN invariant_trace_field_prec_record
      ELSE trace_field_prec_record

\* The configurations that record holds as failed.
RecordedFailed(op) ==
    {key \in DOMAIN prec_record(op) : ~prec_record(op)[key]}

\* Invocation consulting the record: with use_last_known_failed, a starting
\* configuration recorded as failed is skipped.
Invocation_skipping(op, starting_prec, starting_degree, prec_increment, degree_increment, max_prec, max_degree, use_last_known_failed) ==
    LET skip == /\ use_last_known_failed
                /\ <<starting_prec, starting_degree>> \in RecordedFailed(op)
    IN
    [op |-> op, starting_prec |-> starting_prec, starting_degree |-> starting_degree,
     prec_increment |-> prec_increment, degree_increment |-> degree_increment,
     max_prec |-> max_prec, max_degree |-> max_degree,
     use_last_known_failed |-> use_last_known_failed,
     recorded_failed |-> RecordedFailed(op),
     prec |-> IF skip THEN Escalate(starting_prec, prec_increment, max_prec)
              ELSE starting_prec,
     degree |-> IF skip THEN Escalate(starting_degree, degree_increment, max_degree)
                ELSE starting_degree,
     attempts |-> <<>>,
     pc |-> IF EntersLoop(op) THEN "loop" ELSE "done",
     ret |-> IF EntersLoop(op) THEN None ELSE Result(op),
     raised |-> FALSE]

\* A driver is entered (lines 161-163 and their copies): the loop variables
\* start at the starting values, and the while condition is tested.
\* use_last_known_failed is accepted and not read; recorded_failed keeps, for
\* the properties, the configurations the record held as failed at entry.
Invocation(op, starting_prec, starting_degree, prec_increment, degree_increment, max_prec, max_degree, use_last_known_failed) ==
    [op |-> op, starting_prec |-> starting_prec, starting_degree |-> starting_degree,
     prec_increment |-> prec_increment, degree_increment |-> degree_increment,
     max_prec |-> max_prec, max_degree |-> max_degree,
     use_last_known_failed |-> use_last_known_failed,
     recorded_failed |-> RecordedFailed(op),
     prec |-> starting_prec, degree |-> starting_degree,
     attempts |-> <<>>,
     pc |-> IF EntersLoop(op) THEN "loop" ELSE "done",
     ret |-> IF EntersLoop(op) THEN None ELSE Result(op),
     raised |-> FALSE]

\* A driver is called the way the module's defaults call it: it starts at or
\* below the ceilings and both increments are positive.
Invoke ==
    /\ CanCall
    /\ \E op \in Drivers, starting_prec \in 1..MaxPrec, starting_degree \in 1..MaxDegree :
         call' = Invocation(op, starting_prec, starting_degree, 1, 1, MaxPrec, MaxDegree,
                            FALSE)
    /\ ncalls' = ncalls + 1
    /\ UNCHANGED object_vars

\* A driver is called with any arguments; it is the last call followed.
InvokeAny ==
    /\ CanCall
    /\ \E op \in Drivers, starting_prec \in Precisions, starting_degree \in Degrees,
          prec_increment \in Increments, degree_increment \in Increments :
         call' = Invocation(op, starting_prec, starting_degree, prec_increment,
                            degree_increment, MaxPrec, MaxDegree, FALSE)
    /\ ncalls' = MaxCalls
    /\ UNCHANGED object_vars

\* A driver is called with starting values at or below the ceilings, positive
\* increments and either value of use_last_known_failed.
InvokeWellFormed ==
    /\ CanCall
    /\ \E op \in Drivers, starting_prec \in 1..MaxPrec, starting_degree \in 1..MaxDegree,
          prec_increment \in 1..MaxIncrement, degree_increment \in 1..MaxIncrement,
          use_last_known_failed \in BOOLEAN :
         call' = Invocation(op, starting_prec, starting_degree, prec_increment,
                            degree_increment, MaxPrec, MaxDegree, use_last_known_failed)
    /\ ncalls' = ncalls + 1
    /\ UNCHANGED object_vars

InLoop(op) ==
    /\ call.op = op
    /\ call.pc = "loop"
    /\ Len(call.attempts) < MaxAttempts

\* One pass of the loop of compute_trace_field (lines 164-183).
compute_trace_field ==
    /\ InLoop("compute_trace_field")
    /\ \E exact_field_data \in FindFieldResults :
         /\ compute_trace_field_fixed_prec(call.prec, call.degree, exact_field_data)
         /\ call' = AfterAttempt(call,
                        Attempt(call.prec, call.degree, Recognition(exact_field_data),
                                "skipped", exact_field_data # None),
                        trace_field' = None, trace_field')
    /\ UNCHANGED <<invariant_trace_field_vars, quaternion_algebra_vars,
                   invariant_quaternion_algebra_vars, denominators_vars, ncalls>>

\* One pass of the loop of compute_invariant_trace_field (lines 205-224).
compute_invariant_trace_field ==
    /\ InLoop("compute_invariant_trace_field")
    /\ \E exact_field_data \in FindFieldResults :
         /\ compute_invariant_trace_field_fixed_prec(call.prec, call.degree,
                                                     exact_field_data)
         /\ call' = AfterAttempt(call,
                        Attempt(call.prec, call.degree, Recognition(exact_field_data),
                                "skipped", exact_field_data # None),
                        invariant_trace_field' = None, invariant_trace_field')
    /\ UNCHANGED <<trace_field_vars, quaternion_algebra_vars,
                   invariant_quaternion_algebra_vars, denominators_vars, ncalls>>

\* The environment's answers a quaternion-algebra or denominators step can
\* use: find_field is asked only when the field (the generators) is not known
\* yet, express only once the field is known, and Sage about the algebra only
\* when both entries were expressed.
FindFieldAsked(known) ==
    IF known THEN {None} ELSE FindFieldResults

WordsAsked(field) ==
    IF field # None THEN BOOLEAN ELSE {TRUE}

\* How the word selection of the Hilbert symbol went in a step.
WordSelection(field, words_found) ==
    IF field = None THEN "skipped" ELSE IF words_found THEN "found" ELSE "failed"

\* The step raised: the field was known and no word pair was found.
HardFailure(field, words_found) == field # None /\ ~words_found

ExpressAsked(field, words_found) ==
    IF field # None /\ words_found THEN BOOLEAN ELSE {FALSE}

InvariantsAsked(field, first_found, second_found) ==
    IF field # None /\ first_found /\ second_found
      THEN AlgebraInvariants(field[1])
      ELSE {[real_ramification |-> 0, discriminant |-> <<>>]}

RecognitionAsked(known, exact_field_data) ==
    IF known THEN "skipped" ELSE Recognition(exact_field_data)

\* One pass of the loop of compute_quaternion_algebra (lines 386-405).
compute_quaternion_algebra ==
    /\ InLoop("compute_quaternion_algebra")
    /\ \E exact_field_data \in FindFieldAsked(Truthy(trace_field)) :
       \E words_found \in
              WordsAsked(StoreIfFound(trace_field, exact_field_data, "field")) :
       \E first_found, second_found \in
              ExpressAsked(StoreIfFound(trace_field, exact_field_data, "field"),
                           words_found) :
       \E invariants \in
              InvariantsAsked(StoreIfFound(trace_field, exact_field_data, "field"),
                              first_found, second_found) :
         LET attempt == Attempt(call.prec, call.degree,
                                RecognitionAsked(Truthy(trace_field), exact_field_data),
                                WordSelection(StoreIfFound(trace_field, exact_field_data,
                                                           "field"), words_found),
                                first_found /\ second_found)
         IN  /\ compute_quaternion_algebra_fixed_prec(call.prec, call.degree,
                    exact_field_data, words_found, first_found, second_found,
                    invariants)
             /\ call' = IF HardFailure(trace_field', words_found)
                           THEN RaisedIn(call, attempt)
                           ELSE AfterAttempt(call, attempt, quaternion_algebra' = None, quaternion_algebra')
    /\ UNCHANGED ncalls

\* One pass of the loop of compute_invariant_quaternion_algebra (lines 425-444).
compute_invariant_quaternion_algebra ==
    /\ InLoop("compute_invariant_quaternion_algebra")
    /\ \E exact_field_data \in FindFieldAsked(Truthy(invariant_trace_field)) :
       \E words_found \in
              WordsAsked(StoreIfFound(invariant_trace_field, exact_field_data, "field")) :
       \E first_found, second_found \in
              ExpressAsked(StoreIfFound(invariant_trace_field, exact_field_data, "field"),
                           words_found) :
       \E invariants \in
              InvariantsAsked(StoreIfFound(invariant_trace_field, exact_field_data, "field"),
                              first_found, second_found) :
         LET attempt == Attempt(call.prec, call.degree,
                                RecognitionAsked(Truthy(invariant_trace_field), exact_field_data),
                                WordSelection(StoreIfFound(invariant_trace_field, exact_field_data,
                                                           "field"), words_found),
                                first_found /\ second_found)
         IN  /\ compute_invariant_quaternion_algebra_fixed_prec(call.prec, call.degree,
                    exact_field_data, words_found, first_found, second_found,
                    invariants)
             /\ call' = IF HardFailure(invariant_trace_field', words_found)
                           THEN RaisedIn(call, attempt)
                           ELSE AfterAttempt(call, attempt, invariant_quaternion_algebra' = None, invariant_quaternion_algebra')
    /\ UNCHANGED ncalls

\* One pass of the loop of compute_denominators (lines 515-532).
compute_denominators ==
    /\ InLoop("compute_denominators")
    /\ \E exact_field_data \in FindFieldAsked(TruthyList(trace_field_generators)) :
         /\ compute_denominators_fixed_prec(call.prec, call.degree, exact_field_data)
         /\ call' = AfterAttempt(call,
                        Attempt(call.prec, call.degree,
                                RecognitionAsked(TruthyList(trace_field_generators),
                                                 exact_field_data),
                                "skipped", TruthyList(trace_field_generators')),
                        denominators' = None, denominators')
    /\ UNCHANGED ncalls

\* ------------------------------------- direct calls of the one-attempt methods
call_compute_trace_field_fixed_prec ==
    /\ CanCall
    /\ \E prec \in 1..MaxPrec, degree \in 1..MaxDegree, exact_field_data \in FindFieldResults :
         /\ compute_trace_field_fixed_prec(prec, degree, exact_field_data)
         /\ call' = Returned("compute_trace_field_fixed_prec", prec, degree,
                        <<Attempt(prec, degree, Recognition(exact_field_data),
                                  "skipped", exact_field_data # None)>>,
                        trace_field', FALSE)
    /\ ncalls' = ncalls + 1
    /\ UNCHANGED <<invariant_trace_field_vars, quaternion_algebra_vars,
                   invariant_quaternion_algebra_vars, denominators_vars>>

call_compute_invariant_trace_field_fixed_prec ==
    /\ CanCall
    /\ \E prec \in 1..MaxPrec, degree \in 1..MaxDegree, exact_field_data \in FindFieldResults :
         /\ compute_invariant_trace_field_fixed_prec(prec, degree, exact_field_data)
         /\ call' = Returned("compute_invariant_trace_field_fixed_prec", prec, degree,
                        <<Attempt(prec, degree, Recognition(exact_field_data),
                                  "skipped", exact_field_data # None)>>,
                        invariant_trace_field', FALSE)
    /\ ncalls' = ncalls + 1
    /\ UNCHANGED <<trace_field_vars, quaternion_algebra_vars,
                   invariant_quaternion_algebra_vars, denominators_vars>>

call_compute_quaternion_algebra_fixed_prec ==
    /\ CanCall
    /\ \E prec \in 1..MaxPrec, degree \in 1..MaxDegree :
       \E exact_field_data \in FindFieldAsked(Truthy(trace_field)) :
       \E words_found \in
              WordsAsked(StoreIfFound(trace_field, exact_field_data, "field")) :
       \E first_found, second_found \in
              ExpressAsked(StoreIfFound(trace_field, exact_field_data, "field"),
                           words_found) :
       \E invariants \in
              InvariantsAsked(StoreIfFound(trace_field, exact_field_data, "field"),
                              first_found, second_found) :
         /\ compute_quaternion_algebra_fixed_prec(prec, degree, exact_field_data,
                words_found, first_found, second_found, invariants)
         /\ call' = Returned("compute_quaternion_algebra_fixed_prec", prec, degree,
                        <<Attempt(prec, degree,
                                  RecognitionAsked(Truthy(trace_field), exact_field_data),
                                  WordSelection(StoreIfFound(trace_field, exact_field_data,
                                                             "field"), words_found),
                                  first_found /\ second_found)>>,
                        IF first_found /\ second_found THEN quaternion_algebra' ELSE None,
                        HardFailure(trace_field', words_found))
    /\ ncalls' = ncalls + 1

call_compute_invariant_quaternion_algebra_fixed_prec ==
    /\ CanCall
    /\ \E prec \in 1..MaxPrec, degree \in 1..MaxDegree :
       \E exact_field_data \in FindFieldAsked(Truthy(invariant_trace_field)) :
       \E words_found \in
              WordsAsked(StoreIfFound(invariant_trace_field, exact_field_data, "field")) :
       \E first_found, second_found \in
              ExpressAsked(StoreIfFound(invariant_trace_field, exact_field_data, "field"),
                           words_found) :
       \E invariants \in
              InvariantsAsked(StoreIfFound(invariant_trace_field, exact_field_data, "field"),
                              first_found, second_found) :
         /\ compute_invariant_quaternion_algebra_fixed_prec(prec, degree, exact_field_data,
                words_found, first_found, second_found, invariants)
         /\ call' = Returned("compute_invariant_quaternion_algebra_fixed_prec", prec, degree,
                        <<Attempt(prec, degree,
                                  RecognitionAsked(Truthy(invariant_trace_field), exact_field_data),
                                  WordSelection(StoreIfFound(invariant_trace_field, exact_field_data,
                                                             "field"), words_found),
                                  first_found /\ second_found)>>,
                        IF first_found /\ second_found THEN invariant_quaternion_algebra' ELSE None,
                        HardFailure(invariant_trace_field', words_found))
    /\ ncalls' = ncalls + 1

call_compute_denominators_fixed_prec ==
    /\ CanCall
    /\ \E prec \in 1..MaxPrec, degree \in 1..MaxDegree :
       \E exact_field_data \in FindFieldAsked(TruthyList(trace_field_generators)) :
         /\ compute_denominators_fixed_prec(prec, degree, exact_field_data)
         /\ call' = Returned("compute_denominators_fixed_prec", prec, degree,
                        <<Attempt(prec, degree,
                                  RecognitionAsked(TruthyList(trace_field_generators),
                                                   exact_field_data),
                                  "skipped", TruthyList(trace_field_generators'))>>,
                        IF TruthyList(trace_field_generators') THEN denominators'
                        ELSE None,
                        FALSE)
    /\ ncalls' = ncalls + 1

\* ---------------------------------------------------------- is_arithmetic
\* is_arithmetic() (lines 545-556) on the stored invariants.  Calling
\* signature() on None raises; so does asking for the ramified real places of
\* None.
is_arithmetic(field, algebra, denominator_set) ==
    IF field = None THEN Raise
    ELSE LET number_of_complex_places == signature(field[1])[1]
             number_of_real_places == signature(field[1])[2]
         IN  IF algebra = None THEN Raise
             ELSE LET number_of_ramified_real_places ==
                          Cardinality(ramified_real_places(algebra[1]))
                  IN  Return(/\ number_of_ramified_real_places = number_of_real_places
                             /\ number_of_complex_places = 1
                             /\ denominator_set = Some({}))

call_is_arithmetic ==
    /\ call.pc = "done"
    /\ call.op # "is_arithmetic"
    /\ LET outcome == is_arithmetic(invariant_trace_field, invariant_quaternion_algebra,
                                    denominators)
       IN  call' = Returned("is_arithmetic", 0, 0, <<>>, outcome.ret, outcome.raised)
    /\ UNCHANGED <<object_vars, ncalls>>

\* ---------------------------------------------------------------- p_arith
\* Lines 621-623 and 637-639: the signature and discriminant of a field are
\* asked of the attribute.
FieldLines(field) ==
    IF field = None THEN Raise ELSE Return(signature(field[1]))

\* Lines 625-631 and 641-646: the ramification of an algebra.
AlgebraLines(algebra) ==
    IF algebra = None THEN Raise
    ELSE Return(Cardinality(ramified_real_places(algebra[1])))

\* Lines 654-657: bool() and len() of the denominators.
DenominatorLines(denominator_set) ==
    IF denominator_set = None THEN Raise
    ELSE Return(Cardinality(denominator_set[1]) = 0)

\* What p_arith evaluates, in order, each with its outcome.
Evaluated(field, algebra, invariant_field, invariant_algebra, denominator_set, arithmetic_asked) ==
    (IF Truthy(field)
       THEN <<FieldLines(field)>> \o
            (IF Truthy(algebra) THEN <<AlgebraLines(algebra)>> ELSE <<>>)
       ELSE <<>>)
    \o (IF Truthy(invariant_field)
          THEN <<FieldLines(invariant_field)>> \o
               (IF Truthy(invariant_algebra)
                  THEN <<AlgebraLines(invariant_algebra)>> ELSE <<>>)
          ELSE <<>>)
    \o (IF denominator_set = None THEN <<>>
        ELSE <<DenominatorLines(denominator_set)>>)
    \o (IF arithmetic_asked
          THEN <<is_arithmetic(invariant_field, invariant_algebra, denominator_set)>>
          ELSE <<>>)

\* p_arith printing the arithmeticity whatever is known.
p_arith_unguarded(field, algebra, invariant_field, invariant_algebra, denominator_set) ==
    LET evaluated == Evaluated(field, algebra, invariant_field, invariant_algebra,
                               denominator_set, TRUE)
    IN  IF \E i \in 1..Len(evaluated) : evaluated[i].raised THEN Raise
        ELSE Return(evaluated)

\* p_arith() (lines 611-659): it prints what is known; the arithmeticity is
\* asked for when trace_field and invariant_quaternion_algebra are truthy
\* (line 658).  An error raised by anything it evaluates leaves it.
p_arith(field, algebra, invariant_field, invariant_algebra, denominator_set) ==
    LET evaluated == Evaluated(field, algebra, invariant_field, invariant_algebra,
                               denominator_set,
                               Truthy(field) /\ Truthy(invariant_algebra))
    IN  IF \E i \in 1..Len(evaluated) : evaluated[i].raised THEN Raise
        ELSE Return(evaluated)

call_p_arith ==
    /\ call.pc = "done"
    /\ call.op # "p_arith"
    /\ LET outcome == p_arith(trace_field, quaternion_algebra, invariant_trace_field,
                              invariant_quaternion_algebra, denominators)
       IN  call' = Returned("p_arith", 0, 0, <<>>, outcome.ret, outcome.raised)
    /\ UNCHANGED <<object_vars, ncalls>>

Next ==
    \/ Invoke
    \/ compute_trace_field
    \/ compute_invariant_trace_field
    \/ compute_quaternion_algebra
    \/ compute_invariant_quaternion_algebra
    \/ compute_denominators
    \/ call_compute_trace_field_fixed_prec
    \/ call_compute_invariant_trace_field_fixed_prec
    \/ call_compute_quaternion_algebra_fixed_prec
    \/ call_compute_invariant_quaternion_algebra_fixed_prec
    \/ call_compute_denominators_fixed_prec
    \/ call_is_arithmetic
    \/ call_p_arith

\* The life of one instance: up to MaxCalls calls of its methods, the drivers
\* called with well-formed arguments.
Spec == Init /\ [][Next]_vars

NextEscalation ==
    \/ InvokeAny
    \/ compute_trace_field
    \/ compute_invariant_trace_field
    \/ compute_quaternion_algebra
    \/ compute_invariant_quaternion_algebra
    \/ compute_denominators
    \/ call_compute_trace_field_fixed_prec
    \/ call_compute_invariant_trace_field_fixed_prec
    \/ call_compute_quaternion_algebra_fixed_prec
    \/ call_compute_invariant_quaternion_algebra_fixed_prec
    \/ call_compute_denominators_fixed_prec

\* A driver called with any arguments, on a new instance or after calls of the
\* one-attempt methods.
SpecEscalation == Init /\ [][NextEscalation]_vars

NextDrivers ==
    \/ InvokeWellFormed
    \/ compute_trace_field
    \/ compute_invariant_trace_field
    \/ compute_quaternion_algebra
    \/ compute_invariant_quaternion_algebra
    \/ compute_denominators
    \/ call_compute_trace_field_fixed_prec
    \/ call_compute_invariant_trace_field_fixed_prec

\* Drivers called with well-formed arguments, on a new instance or after
\* recognition attempts of the one-attempt methods.
SpecDrivers == Init /\ [][NextDrivers]_vars

\* A driver is sequential code: while it is in its loop and each
\* fixed-precision step ends, its next pass is taken.  Every pass adds an
\* attempt.
Progress == Len(call.attempts)

\* A driver is called with starting values at or below the ceilings and
\* positive increments.
InvokeEscalating ==
    /\ CanCall
    /\ \E op \in Drivers, starting_prec \in 1..MaxPrec, starting_degree \in 1..MaxDegree,
          prec_increment \in 1..MaxIncrement, degree_increment \in 1..MaxIncrement :
         call' = Invocation(op, starting_prec, starting_degree, prec_increment,
                            degree_increment, MaxPrec, MaxDegree, FALSE)
    /\ ncalls' = ncalls + 1
    /\ UNCHANGED object_vars

NextTermination ==
    \/ InvokeEscalating
    \/ compute_trace_field
    \/ compute_invariant_trace_field
    \/ compute_quaternion_algebra
    \/ compute_invariant_quaternion_algebra
    \/ compute_denominators

SpecTermination ==
    /\ Init
    /\ [][NextTermination]_vars
    /\ WF_Progress(compute_trace_field)
    /\ WF_Progress(compute_invariant_trace_field)
    /\ WF_Progress(compute_quaternion_algebra)
    /\ WF_Progress(compute_invariant_quaternion_algebra)
    /\ WF_Progress(compute_denominators)

\* ======================================================= field_isomorphisms
\* Exact arithmetic in imaginary quadratic fields.  A complex number is a pair
\* <<x, y>> standing for (x + y*sqrt(-d))/4; an element of the number field
\* with generator g is a pair <<p, q>> standing for (p + q*g)/4.
Grid == (-MaxCoordinate)..MaxCoordinate

\* A number field as NumberField(polynomial, name, embedding=...) makes it
\* (the name of the generator plays no part in what is computed):
\* the defining polynomial x^2 + (b4/4) x + c16/16, whose roots lie in
\* Q(sqrt(-d)), and the distinguished embedding, None or the complex number the
\* generator is sent to.
NumberField(b4, c16, d, embedding) ==
    [b4 |-> b4, c16 |-> c16, d |-> d, embedding |-> embedding]

defining_polynomial(field) == [b4 |-> field.b4, c16 |-> field.c16]

gen_embedding(field) == field.embedding

\* field.gen(): the generator, as an element of the field.
gen(field) == <<0, 4>>

\* polynomial(z) = 0 for the complex number z of Q(sqrt(-d)).
IsRoot(polynomial, z, d) ==
    /\ z[1] * z[1] - d * z[2] * z[2] + polynomial.b4 * z[1] + polynomial.c16 = 0
    /\ 2 * z[1] * z[2] + polynomial.b4 * z[2] = 0

\* The elements of a list of pairs of integers in increasing order of the
\* second coordinate, then of the first.
RECURSIVE Listed(_)
Listed(S) ==
    IF S = {} THEN <<>>
    ELSE LET least == CHOOSE z \in S : \A w \in S :
                          z[2] < w[2] \/ (z[2] = w[2] /\ z[1] <= w[1])
         IN  <<least>> \o Listed(S \ {least})

\* field.complex_embeddings(): each embedding is known by the complex number
\* it sends the generator to, a root of the defining polynomial.
complex_embeddings(field) ==
    Listed({z \in Grid \X Grid : IsRoot(defining_polynomial(field), z, field.d)})

\* The multiplication q*g of an element's coefficient with the image of the
\* generator is exact on the grid.
Exact(element, image) ==
    /\ (element[2] * image[1]) % 4 = 0
    /\ (element[2] * image[2]) % 4 = 0

\* embedding(element): the complex number an embedding sends an element to.
Embed(element, embedding) ==
    <<element[1] + (element[2] * embedding[1]) \div 4,
      (element[2] * embedding[2]) \div 4>>

\* The roots of a polynomial in a field: the linear factors x - root of its
\* factorization over that field (lines 68-75).
RootsIn(polynomial, field) ==
    LET embeddings == complex_embeddings(field)
    IN  {element \in Grid \X Grid :
            /\ Exact(element, embeddings[1])
            /\ IsRoot(polynomial, Embed(element, embeddings[1]), field.d)}

\* The orders in which factor() can list the linear factors.
Factorizations(roots) ==
    {listing \in [1..Cardinality(roots) -> roots] :
        \A j, k \in 1..Cardinality(roots) : listing[j] = listing[k] => j = k}

\* isomorphisms_between_number_fields (lines 57-77): one isomorphism per
\* linear factor, in the order of the factorization; an isomorphism sends the
\* generator of the domain to image.
isomorphisms_between_number_fields(domain_field, codomain_field, factorization) ==
    [k \in 1..Len(factorization) |->
        [domain |-> domain_field, codomain |-> codomain_field,
         image |-> factorization[k]]]

\* abs(CC(z) - CC(w)), squared.
Distance(z, w, d) ==
    (z[1] - w[1]) * (z[1] - w[1]) + d * (z[2] - w[2]) * (z[2] - w[2])

\* Python's min(list, key=...): the first element whose key is least.
min(list, keys) ==
    list[CHOOSE k \in 1..Len(list) :
            /\ \A j \in 1..Len(list) : keys[k] <= keys[j]
            /\ \A j \in 1..(k - 1) : keys[j] > keys[k]]

\* transfer_embedding without the test of line 104: a missing embedding is
\* taken for the number 0.
transfer_embedding_unchecked(isomorphism) ==
    LET codomain == isomorphism.codomain
        domain_numerical_root ==
            IF gen_embedding(isomorphism.domain) = None THEN <<0, 0>>
            ELSE gen_embedding(isomorphism.domain)[1]
        codomain_embeddings == complex_embeddings(codomain)
        special_embedding ==
            min(codomain_embeddings,
                [k \in 1..Len(codomain_embeddings) |->
                    Distance(domain_numerical_root,
                             Embed(isomorphism.image, codomain_embeddings[k]),
                             codomain.d)])
    IN  Return(Embed(gen(codomain), special_embedding))

\* transfer_embedding (lines 80-114).
transfer_embedding(isomorphism) ==
    LET domain == isomorphism.domain
        codomain == isomorphism.codomain
        domain_numerical_root == gen_embedding(domain)
        domain_generator_image == isomorphism.image
    IN  IF domain_numerical_root = None THEN Raise
        ELSE LET codomain_embeddings == complex_embeddings(codomain)
                 special_embedding ==
                     min(codomain_embeddings,
                         [k \in 1..Len(codomain_embeddings) |->
                             Distance(domain_numerical_root[1],
                                      Embed(domain_generator_image,
                                            codomain_embeddings[k]),
                                      codomain.d)])
             IN  Return(Embed(gen(codomain), special_embedding))

\* compare_embeddings (lines 117-143); second_numerical_root is None when the
\* caller leaves it out.
compare_embeddings(field, first_numerical_root, second_numerical_root) ==
    LET generator == gen(field)
        second == IF second_numerical_root = None THEN gen_embedding(field)
                  ELSE second_numerical_root
    IN  IF second = None THEN Raise
        ELSE LET embeddings == complex_embeddings(field)
                 first_embedding ==
                     min(embeddings,
                         [k \in 1..Len(embeddings) |->
                             Distance(first_numerical_root,
                                      Embed(generator, embeddings[k]), field.d)])
                 second_embedding ==
                     min(embeddings,
                         [k \in 1..Len(embeddings) |->
                             Distance(second[1],
                                      Embed(generator, embeddings[k]), field.d)])
             IN  Return(first_embedding = second_embedding)

\* isomorphic_respecting_embeddings (lines 146-158), factor() listing the
\* linear factors in the order factorization.
isomorphic_respecting_embeddings(first_field, second_field, factorization) ==
    LET iso_list == isomorphisms_between_number_fields(first_field, second_field,
                                                       factorization)
    IN  IF Len(iso_list) = 0 THEN Return(FALSE)
        ELSE LET isomorphism == iso_list[1]
                 transfered_root == transfer_embedding(isomorphism)
             IN  IF transfered_root.raised THEN Raise
                 ELSE compare_embeddings(second_field, transfered_root.ret[1], None)

\* The fields of run_tests (lines 169-172): x^2 + 1 with i sent to I, x^2 + 1
\* with minusi sent to -I, x^2 + 2x + 5/4 with a sent to -1 + I/2.
Field1 == NumberField(0, 16, 1, Some(<<0, 4>>))
Field2 == NumberField(0, 16, 1, Some(<<0, -4>>))
Field3 == NumberField(8, 20, 1, Some(<<-4, 2>>))

\* The polynomials of run_tests and x^2 + 2, with no embedding.
Unembedded ==
    {NumberField(0, 16, 1, None), NumberField(8, 20, 1, None),
     NumberField(0, 32, 2, None)}

\* The fields the functions are called with: each of these polynomials with
\* either of its roots as the embedding, or with none.
NumberFields ==
    UNION {{field} \cup
           {[field EXCEPT !.embedding = Some(z)] :
               z \in {w \in Grid \X Grid :
                         IsRoot(defining_polynomial(field), w, field.d)}} :
           field \in Unembedded}

\* A finished call of a function of field_isomorphisms.
Called(op, arguments, outcome) ==
    [op |-> op, arguments |-> arguments, pc |-> "done", ret |-> outcome.ret,
     raised |-> outcome.raised]

\* The functions keep no state: each call is followed from the initial state.
Fresh == call.op = "__init__"

call_isomorphic_respecting_embeddings ==
    /\ Fresh
    /\ \E first_field, second_field \in NumberFields :
       \E factorization \in
              Factorizations(RootsIn(defining_polynomial(first_field), second_field)) :
         call' = Called("isomorphic_respecting_embeddings",
                        [first_field |-> first_field, second_field |-> second_field,
                         factorization |-> factorization],
                        isomorphic_respecting_embeddings(first_field, second_field,
                                                         factorization))
    /\ UNCHANGED <<object_vars, ncalls>>

call_transfer_embedding ==
    /\ Fresh
    /\ \E domain_field, codomain_field \in NumberFields :
       \E factorization \in
              Factorizations(RootsIn(defining_polynomial(domain_field),
                                     codomain_field)) :
       \E k \in 1..Len(factorization) :
         LET isomorphism ==
                 isomorphisms_between_number_fields(domain_field, codomain_field,
                                                    factorization)[k]
         IN  call' = Called("transfer_embedding", [isomorphism |-> isomorphism],
                            transfer_embedding(isomorphism))
    /\ UNCHANGED <<object_vars, ncalls>>

call_compare_embeddings ==
    /\ Fresh
    /\ \E field \in NumberFields :
       \E first_numerical_root \in
              {z \in Grid \X Grid : IsRoot(defining_polynomial(field), z, field.d)} :
       \E second_numerical_root \in {None, Some(first_numerical_root)} :
         call' = Called("compare_embeddings",
                        [field |-> field,
                         first_numerical_root |-> first_numerical_root,
                         second_numerical_root |-> second_numerical_root],
                        compare_embeddings(field, first_numerical_root,
                                           second_numerical_root))
    /\ UNCHANGED <<object_vars, ncalls>>

NextIsomorphisms ==
    \/ call_isomorphic_respecting_embeddings
    \/ call_transfer_embedding
    \/ call_compare_embeddings

\* Calls of the functions of field_isomorphisms on the fields above.
SpecIsomorphisms == Init /\ [][NextIsomorphisms]_vars

\* ============================================================ the claims
DriverCall == call.op \in Drivers

Pair(attempt) == <<attempt.prec, attempt.degree>>

\* A step of the model in which a fixed-precision step ran.
AttemptMade ==
    /\ Len(call'.attempts) > 0
    /\ \/ ncalls' # ncalls
       \/ Len(call'.attempts) = Len(call.attempts) + 1

LastAttempt(c) == c.attempts[Len(c.attempts)]

\* C1: in every driver, an attempt whose fixed-precision step succeeds is the
\* last attempt of the invocation, and the invocation returns a non-None value;
\* this is claimed for every configuration up to and including the ceiling.
C1_SuccessStopsAndReturns ==
    DriverCall =>
        \A i \in 1..Len(call.attempts) :
            call.attempts[i].ok =>
                /\ i = Len(call.attempts)
                /\ call.pc = "done"
                /\ ~call.raised
                /\ call.ret # None

\* The fixed-precision step has always failed: every attempt of the invocation
\* returned None (none raised) and, for the drivers whose loop tests the
\* attribute itself, no earlier step had stored it.
StepAlwaysFailed ==
    /\ \A i \in 1..Len(call.attempts) : ~call.attempts[i].ok
    /\ ~call.raised
    /\ call.op \in {"compute_quaternion_algebra",
                    "compute_invariant_quaternion_algebra",
                    "compute_denominators"} => Result(call.op) = None

StartsAtCeiling ==
    /\ call.starting_prec = call.max_prec
    /\ call.starting_degree = call.max_degree

\* C2: a driver invoked with starting_prec = max_prec and starting_degree =
\* max_degree, the fixed-precision step always failing, makes exactly one
\* attempt and returns None; it does not go round the loop again.
C2_ExhaustionOneAttempt ==
    (DriverCall /\ StartsAtCeiling /\ StepAlwaysFailed) =>
        /\ call.pc = "loop" => Len(call.attempts) = 0
        /\ call.pc = "done" =>
              /\ Len(call.attempts) = 1
              /\ ~call.attempts[1].ok
              /\ call.ret = None

C2_Witness ==
    /\ call.op = "compute_quaternion_algebra"
    /\ StartsAtCeiling
    /\ StepAlwaysFailed
    /\ call.pc = "done"
    /\ Len(call.attempts) = 1
    /\ call.ret = None

\* The pairs passed to the fixed-precision step, and the pair the loop holds
\* for its next pass, never decrease in either coordinate.
NonDecreasing ==
    /\ \A i \in 1..(Len(call.attempts) - 1) :
          /\ call.attempts[i].prec <= call.attempts[i + 1].prec
          /\ call.attempts[i].degree <= call.attempts[i + 1].degree
    /\ (call.pc = "loop" /\ Len(call.attempts) > 0) =>
          /\ LastAttempt(call).prec <= call.prec
          /\ LastAttempt(call).degree <= call.degree

\* C3 as stated: for any values of the six escalation arguments, the sequence
\* of (prec, degree) pairs attempted in one invocation is non-decreasing in both
\* coordinates.
C3_MonotoneForAnyArguments ==
    DriverCall => NonDecreasing

\* C3 as amended: the sequence is non-decreasing in both coordinates when the
\* starting values do not exceed the maxima and neither increment is negative.
C3_MonotoneFromBelowCeiling ==
    (/\ DriverCall
     /\ call.starting_prec <= call.max_prec
     /\ call.starting_degree <= call.max_degree
     /\ call.prec_increment >= 0
     /\ call.degree_increment >= 0) => NonDecreasing

C3_Witness ==
    /\ DriverCall
    /\ call.starting_prec < call.max_prec
    /\ call.starting_degree <= call.max_degree
    /\ call.prec_increment > 0
    /\ call.degree_increment >= 0
    /\ Len(call.attempts) >= 2
    /\ call.attempts[1].prec < call.attempts[2].prec

\* No pair is passed twice to the fixed-precision step, and the pair the loop
\* holds for its next pass has not been attempted.
NoPairTwice ==
    /\ \A i, j \in 1..Len(call.attempts) :
          i < j => Pair(call.attempts[i]) # Pair(call.attempts[j])
    /\ call.pc = "loop" =>
          \A i \in 1..Len(call.attempts) :
              Pair(call.attempts[i]) # <<call.prec, call.degree>>

\* C4 as stated: for any values of the six escalation arguments, no
\* (prec, degree) pair is attempted more than once in one invocation.
C4_NoRetryForAnyArguments ==
    DriverCall => NoPairTwice

\* C4 as amended: no pair is attempted more than once when neither increment
\* is zero.
C4_NoRetryWithNonzeroIncrements ==
    (/\ DriverCall
     /\ call.prec_increment # 0
     /\ call.degree_increment # 0) => NoPairTwice

C4_Witness ==
    /\ DriverCall
    /\ call.prec_increment # 0
    /\ call.degree_increment # 0
    /\ call.pc = "done"
    /\ Len(call.attempts) >= 2

\* The record the attempts of a call of op are entered in.
RecordOf(op) ==
    IF op \in {"compute_trace_field", "compute_trace_field_fixed_prec"}
      THEN trace_field_prec_record
      ELSE invariant_trace_field_prec_record

\* C5: after an invocation of compute_trace_field (compute_invariant_trace_field)
\* the prec record of that field has a key for every (prec, degree) attempted
\* in the invocation, and the value under it is True exactly when the most
\* recent attempt at that pair succeeded.
C5_RecordHoldsLastOutcome ==
    call.op \in {"compute_trace_field", "compute_invariant_trace_field",
                 "compute_trace_field_fixed_prec",
                 "compute_invariant_trace_field_fixed_prec"} =>
        \A i \in 1..Len(call.attempts) :
            /\ Pair(call.attempts[i]) \in DOMAIN RecordOf(call.op)
            /\ (\A j \in (i + 1)..Len(call.attempts) :
                     Pair(call.attempts[j]) # Pair(call.attempts[i])) =>
                  RecordOf(call.op)[Pair(call.attempts[i])] = call.attempts[i].ok

C5_Witness ==
    /\ call.op = "compute_trace_field"
    /\ call.pc = "done"
    /\ Len(call.attempts) = 2
    /\ Pair(call.attempts[1]) = Pair(call.attempts[2])
    /\ ~call.attempts[1].ok
    /\ call.attempts[2].ok
    /\ trace_field_prec_record[Pair(call.attempts[2])] = TRUE

AllOps ==
    Drivers \cup {"compute_trace_field_fixed_prec",
                  "compute_invariant_trace_field_fixed_prec",
                  "compute_quaternion_algebra_fixed_prec",
                  "compute_invariant_quaternion_algebra_fixed_prec",
                  "compute_denominators_fixed_prec"}

\* The attribute a method computes.
Computed(op) ==
    CASE op \in {"compute_trace_field", "compute_trace_field_fixed_prec"} ->
             trace_field
      [] op \in {"compute_invariant_trace_field",
                 "compute_invariant_trace_field_fixed_prec"} ->
             invariant_trace_field
      [] op \in {"compute_quaternion_algebra",
                 "compute_quaternion_algebra_fixed_prec"} ->
             quaternion_algebra
      [] op \in {"compute_invariant_quaternion_algebra",
                 "compute_invariant_quaternion_algebra_fixed_prec"} ->
             invariant_quaternion_algebra
      [] OTHER -> denominators

\* C6: monotone fill.  Once trace_field, invariant_trace_field,
\* quaternion_algebra, invariant_quaternion_algebra or denominators holds a
\* value it never becomes None again, and a failed attempt of a method leaves
\* the attribute that method computes as it was (a failed recognition leaves
\* both fields as they were).
C6_MonotoneFill ==
    [][/\ trace_field # None => trace_field' # None
       /\ invariant_trace_field # None => invariant_trace_field' # None
       /\ quaternion_algebra # None => quaternion_algebra' # None
       /\ invariant_quaternion_algebra # None => invariant_quaternion_algebra' # None
       /\ denominators # None => denominators' # None
       /\ AttemptMade =>
             /\ \A op \in AllOps :
                   (call'.op = op /\ ~LastAttempt(call').ok) =>
                       (Computed(op))' = Computed(op)
             /\ LastAttempt(call').recognition = "failed" =>
                   /\ trace_field' = trace_field
                   /\ invariant_trace_field' = invariant_trace_field]_vars

C6_Witness ==
    /\ call.op = "compute_trace_field_fixed_prec"
    /\ ~call.attempts[1].ok
    /\ trace_field # None
    /\ ncalls = 2

\* rho = r and c = 1 and no denominators, r and c read off signature() in the
\* order (real, complex).
Arithmetic ==
    LET r == signature(invariant_trace_field[1])[1]
        c == signature(invariant_trace_field[1])[2]
        rho == Cardinality(ramified_real_places(invariant_quaternion_algebra[1]))
    IN  rho = r /\ c = 1 /\ denominators = Some({})

\* C7: with the invariant trace field, the invariant quaternion algebra and
\* the denominators known, is_arithmetic returns True exactly when rho = r and
\* c = 1 and the denominators are the empty set, and False otherwise.
C7_ArithmeticCriterion ==
    (/\ call.op = "is_arithmetic"
     /\ invariant_trace_field # None
     /\ invariant_quaternion_algebra # None
     /\ denominators # None) =>
        /\ ~call.raised
        /\ call.ret = Some(Arithmetic)

\* C8: is_arithmetic called with the invariant trace field, the invariant
\* quaternion algebra or the denominators absent raises an error and returns
\* no boolean.
C8_AbsentOperandRaises ==
    (/\ call.op = "is_arithmetic"
     /\ \/ invariant_trace_field = None
        \/ invariant_quaternion_algebra = None
        \/ denominators = None) =>
        /\ call.raised
        /\ call.ret = None

\* C9: denominators is known only if the trace-field generators are, and a
\* call of compute_denominators_fixed_prec whose recognition attempt fails
\* returns None and writes no denominators.
C9_DenominatorsNeedGenerators ==
    /\ denominators # None => trace_field_generators # None
    /\ (/\ call.op = "compute_denominators_fixed_prec"
        /\ call.attempts[1].recognition = "failed") =>
           /\ call.ret = None
           /\ denominators = None
           /\ denominator_residue_characteristics = None

C9_Witness ==
    /\ call.op = "compute_denominators_fixed_prec"
    /\ call.attempts[1].recognition = "failed"
    /\ call.ret = None
    /\ trace_field_generators = None
    /\ Pair(call.attempts[1]) \in DOMAIN trace_field_prec_record

\* The algebra is built over field with both entries written in terms of root.
BuiltOver(algebra, field, root) ==
    /\ algebra # None
    /\ field # None
    /\ root # None
    /\ algebra[1].base = field[1]
    /\ algebra[1].a[1].in_terms_of = root[1]
    /\ algebra[1].b[1].in_terms_of = root[1]

\* C10: no cross-wiring.  A step of compute_invariant_quaternion_algebra or of
\* compute_invariant_quaternion_algebra_fixed_prec leaves the trace field, its
\* root, generators and record and the quaternion algebra with its
\* ramification data unchanged, and builds over the invariant trace field and
\* its root; a step of compute_quaternion_algebra or of
\* compute_quaternion_algebra_fixed_prec leaves every invariant_* attribute
\* unchanged and builds over the trace field and its root.
C10_NoCrossWiring ==
    [][AttemptMade =>
         /\ call'.op \in {"compute_invariant_quaternion_algebra",
                          "compute_invariant_quaternion_algebra_fixed_prec"} =>
               /\ trace_field_vars' = trace_field_vars
               /\ quaternion_algebra_vars' = quaternion_algebra_vars
               /\ LastAttempt(call').ok =>
                     BuiltOver(invariant_quaternion_algebra',
                               invariant_trace_field',
                               invariant_trace_field_numerical_root')
         /\ call'.op \in {"compute_quaternion_algebra",
                          "compute_quaternion_algebra_fixed_prec"} =>
               /\ invariant_trace_field_vars' = invariant_trace_field_vars
               /\ invariant_quaternion_algebra_vars' = invariant_quaternion_algebra_vars
               /\ LastAttempt(call').ok =>
                     BuiltOver(quaternion_algebra', trace_field',
                               trace_field_numerical_root')]_vars

C10_Witness ==
    /\ call.op = "compute_invariant_quaternion_algebra_fixed_prec"
    /\ call.attempts[1].ok
    /\ call.attempts[1].recognition = "succeeded"
    /\ invariant_quaternion_algebra # None
    /\ trace_field # None
    /\ quaternion_algebra = None

\* C11: soft build failure.  A quaternion-algebra step that does not build
\* (the field is not recognized, or express returns None for an entry) raises
\* nothing and leaves the algebra of its side, its ramified places and their
\* residue characteristics as they were; called directly it returns None.
C11_SoftBuildFailure ==
    [][(AttemptMade /\ ~LastAttempt(call').ok /\ ~call'.raised) =>
         /\ call'.op \in {"compute_quaternion_algebra",
                          "compute_quaternion_algebra_fixed_prec"} =>
               quaternion_algebra_vars' = quaternion_algebra_vars
         /\ call'.op \in {"compute_invariant_quaternion_algebra",
                          "compute_invariant_quaternion_algebra_fixed_prec"} =>
               invariant_quaternion_algebra_vars' = invariant_quaternion_algebra_vars
         /\ call'.op \in {"compute_quaternion_algebra_fixed_prec",
                          "compute_invariant_quaternion_algebra_fixed_prec"} =>
               call'.ret = None]_vars

C11_Witness ==
    /\ call.op = "compute_quaternion_algebra_fixed_prec"
    /\ ~call.attempts[1].ok
    /\ ~call.raised
    /\ call.ret = None
    /\ trace_field # None
    /\ quaternion_algebra # None
    /\ quaternion_algebra_ramified_places # None

\* The rational primes below the prime ideals of a list, in increasing order.
PrimesBelow(places) == sort({places[i].p : i \in 1..Len(places)})

\* C12: after a successful build the residue characteristics of the ramified
\* places are the increasing, duplicate-free list of the rational primes below
\* the ramified prime ideals: an ideal of norm p^f contributes p.
C12_ResidueCharacteristicsArePrimes ==
    /\ quaternion_algebra # None =>
          quaternion_algebra_ramified_places_residue_characteristics =
              Some(PrimesBelow(quaternion_algebra_ramified_places[1]))
    /\ invariant_quaternion_algebra # None =>
          invariant_quaternion_algebra_ramified_places_residue_characteristics =
              Some(PrimesBelow(invariant_quaternion_algebra_ramified_places[1]))

\* The prime factors of the denominator ideals of all the generators.
AllDenominatorPrimes(generators) ==
    {P \in PrimeIdeals : \E i \in 1..Len(generators) : P \in generators[i]}

\* C13: integrality conservation.  A call of compute_denominators_fixed_prec
\* that has generators stores and returns the prime factors of the denominator
\* ideals of all of them; the result is empty exactly when every generator's
\* denominator ideal is the whole ring, and it is stored as a set, not as None.
C13_IntegralityConservation ==
    (/\ call.op = "compute_denominators_fixed_prec"
     /\ call.attempts[1].ok) =>
        /\ denominators # None
        /\ denominators = Some(AllDenominatorPrimes(trace_field_generators[1]))
        /\ call.ret = denominators
        /\ denominators = Some({}) <=>
              \A i \in 1..Len(trace_field_generators[1]) :
                  trace_field_generators[1][i] = {}

C13_Witness ==
    /\ call.op = "compute_denominators_fixed_prec"
    /\ call.attempts[1].ok
    /\ call.ret = Some({})
    /\ denominators = Some({})
    /\ denominators # None
    /\ Len(trace_field_generators[1]) >= 1

QuaternionAlgebraDrivers ==
    {"compute_quaternion_algebra", "compute_invariant_quaternion_algebra"}

\* C14: a hard failure is not retried.  When the word selection of the Hilbert
\* symbol fails during an attempt of compute_quaternion_algebra or of
\* compute_invariant_quaternion_algebra, the driver ends at that attempt with
\* the error raised (not with a returned None), the stored algebras and their
\* ramification data are unchanged, and the invocation makes no further attempt.
C14_HardFailureNotRetried ==
    [][/\ (/\ AttemptMade
           /\ call'.op \in QuaternionAlgebraDrivers
           /\ LastAttempt(call').words = "failed") =>
             /\ call'.raised
             /\ call'.pc = "done"
             /\ quaternion_algebra_vars' = quaternion_algebra_vars
             /\ invariant_quaternion_algebra_vars' = invariant_quaternion_algebra_vars
       /\ (/\ call.op \in QuaternionAlgebraDrivers
           /\ Len(call.attempts) > 0
           /\ LastAttempt(call).words = "failed") =>
             (call'.op = call.op => Len(call'.attempts) <= Len(call.attempts))]_vars

C14_Witness ==
    /\ call.op = "compute_quaternion_algebra"
    /\ call.raised
    /\ call.pc = "done"
    /\ Len(call.attempts) = 1
    /\ call.attempts[1].words = "failed"
    /\ call.prec < call.max_prec
    /\ trace_field # None
    /\ quaternion_algebra = None

\* C15: p_arith raises no error in any state the compute_* methods reach,
\* whatever is known and whatever is not, and it asks for the arithmeticity
\* only in states in which is_arithmetic raises nothing.
C15_ReportNeverRaises ==
    call.op = "p_arith" =>
        /\ ~call.raised
        /\ call.ret # None
        /\ (Truthy(trace_field) /\ Truthy(invariant_quaternion_algebra)) =>
              ~is_arithmetic(invariant_trace_field, invariant_quaternion_algebra,
                             denominators).raised

C15_Witness ==
    /\ call.op = "p_arith"
    /\ ~call.raised
    /\ trace_field # None
    /\ invariant_quaternion_algebra # None
    /\ quaternion_algebra = None
    /\ denominators = None

ComparedFields ==
    /\ call.op = "isomorphic_respecting_embeddings"
    /\ call.arguments.first_field.embedding # None
    /\ call.arguments.second_field.embedding # None

\* C16: isomorphic_respecting_embeddings returns False between x^2 + 1 with
\* its generator sent to +i and x^2 + 1 with its generator sent to -i,
\* whichever isomorphism the factorization lists first.
C16_ConjugateEmbeddingsDiffer ==
    (/\ call.op = "isomorphic_respecting_embeddings"
     /\ call.arguments.first_field = Field1
     /\ call.arguments.second_field = Field2) =>
        /\ ~call.raised
        /\ call.ret = Some(FALSE)

\* C17: reflexivity.  isomorphic_respecting_embeddings returns True between an
\* embedded field and a copy of it with the same defining polynomial and the
\* same embedding.
C17_Reflexive ==
    (ComparedFields /\ call.arguments.first_field = call.arguments.second_field) =>
        /\ ~call.raised
        /\ call.ret = Some(TRUE)

\* C18: isomorphic_respecting_embeddings returns True for x^2 + 1 with
\* embedding i against x^2 + 2x + 5/4 with embedding -1 + i/2.
C18_NonMonicRobust ==
    (/\ call.op = "isomorphic_respecting_embeddings"
     /\ call.arguments.first_field = Field1
     /\ call.arguments.second_field = Field3) =>
        /\ ~call.raised
        /\ call.ret = Some(TRUE)

\* The factorizations the reverse comparison can meet: the same one when both
\* directions factor one polynomial over one field, any order otherwise.
ReverseFactorizations ==
    IF /\ defining_polynomial(call.arguments.first_field)
            = defining_polynomial(call.arguments.second_field)
       /\ call.arguments.first_field.d = call.arguments.second_field.d
    THEN {call.arguments.factorization}
    ELSE Factorizations(RootsIn(defining_polynomial(call.arguments.second_field),
                                call.arguments.first_field))

\* C19: embedding symmetry.  For fields A and B that both carry an embedding,
\* isomorphic_respecting_embeddings(A, B) and
\* isomorphic_respecting_embeddings(B, A) give the same answer.
C19_Symmetric ==
    ComparedFields =>
        \A factorization \in ReverseFactorizations :
            isomorphic_respecting_embeddings(call.arguments.second_field,
                                             call.arguments.first_field,
                                             factorization)
              = [raised |-> call.raised, ret |-> call.ret]

\* C20: embedding-unavailable errors.  transfer_embedding raises exactly when
\* the domain of the isomorphism has no embedding; compare_embeddings raises
\* exactly when it is given no second root and the field has no embedding;
\* isomorphic_respecting_embeddings on two isomorphic fields raises, and
\* returns no boolean, when either field has no embedding.
C20_EmbeddingUnavailable ==
    /\ call.op = "transfer_embedding" =>
          (call.raised <=> gen_embedding(call.arguments.isomorphism.domain) = None)
    /\ call.op = "compare_embeddings" =>
          (call.raised <=> (/\ call.arguments.second_numerical_root = None
                            /\ gen_embedding(call.arguments.field) = None))
    /\ (/\ call.op = "isomorphic_respecting_embeddings"
        /\ Len(call.arguments.factorization) > 0
        /\ \/ gen_embedding(call.arguments.first_field) = None
           \/ gen_embedding(call.arguments.second_field) = None) =>
          /\ call.raised
          /\ call.ret = None

C20_Witness ==
    /\ call.op = "isomorphic_respecting_embeddings"
    /\ Len(call.arguments.factorization) > 0
    /\ gen_embedding(call.arguments.first_field) # None
    /\ gen_embedding(call.arguments.second_field) = None
    /\ call.raised

\* The drivers whose loop tests the attribute itself.
AttributeDrivers ==
    {"compute_quaternion_algebra", "compute_invariant_quaternion_algebra",
     "compute_denominators"}

\* C21: compute_quaternion_algebra, compute_invariant_quaternion_algebra and
\* compute_denominators make at least one fixed-precision attempt in every
\* invocation, also when the quaternion algebra (the denominators) is already
\* known on the instance.
C21_RecomputesWhenKnown ==
    (call.op \in AttributeDrivers /\ call.pc = "done") =>
        Len(call.attempts) >= 1

\* Between two states a record loses no key, and the value under a key changes
\* only to the outcome of a recognition attempt made at that key.
RecordKept(before, after, attempted) ==
    /\ DOMAIN before \subseteq DOMAIN after
    /\ \A key \in DOMAIN before :
          after[key] # before[key] =>
              /\ attempted
              /\ key = Pair(LastAttempt(call'))
              /\ LastAttempt(call').recognition # "skipped"
              /\ after[key] = (LastAttempt(call').recognition = "succeeded")

\* C22: the attempt records are append-only in their key sets.  Over any
\* sequence of operations on the instance no key is removed from
\* trace_field_prec_record or invariant_trace_field_prec_record, and the only
\* change to the value under an existing key is its overwriting by a later
\* attempt at the same (prec, degree).
C22_RecordsAppendOnly ==
    [][/\ RecordKept(trace_field_prec_record, trace_field_prec_record', AttemptMade)
       /\ RecordKept(invariant_trace_field_prec_record,
                     invariant_trace_field_prec_record', AttemptMade)]_vars

C22_Witness ==
    /\ call.op = "compute_invariant_trace_field"
    /\ Len(call.attempts) = 3
    /\ Pair(call.attempts[1]) # Pair(call.attempts[2])
    /\ Pair(call.attempts[2]) = Pair(call.attempts[3])
    /\ ~call.attempts[2].ok
    /\ call.attempts[3].ok
    /\ invariant_trace_field_prec_record[Pair(call.attempts[1])] = FALSE
    /\ invariant_trace_field_prec_record[Pair(call.attempts[3])] = TRUE

\* The same call with the other value of use_last_known_failed.
Flip(c) == [c EXCEPT !.use_last_known_failed = ~@]

\* C23: use_last_known_failed has no effect.  Every step of a driver invoked
\* with one value of use_last_known_failed is, with the same answers of the
\* backend, a step of the invocation that differs only in that argument: it
\* attempts the same (prec, degree), returns the same value and leaves the same
\* attributes; the first attempt is made at the starting configuration even
\* when the record holds it as failed.
C23_LastKnownFailedIgnored ==
    [][(call'.op \in Drivers /\ call' # call) =>
          /\ IF ncalls' # ncalls
               THEN Flip(call') =
                        Invocation(call'.op, call'.starting_prec, call'.starting_degree,
                                   call'.prec_increment, call'.degree_increment,
                                   call'.max_prec, call'.max_degree,
                                   ~call'.use_last_known_failed)
               ELSE Flip(call') \in
                        {AfterAttempt(Flip(call), LastAttempt(call'),
                                      (Result(call.op))' = None, (Result(call.op))'),
                         RaisedIn(Flip(call), LastAttempt(call'))}
          /\ Len(call'.attempts) >= 1 =>
                Pair(call'.attempts[1]) = <<call'.starting_prec, call'.starting_degree>>]_vars

C23_Witness ==
    /\ call.op = "compute_trace_field"
    /\ call.use_last_known_failed
    /\ call.pc = "done"
    /\ Len(call.attempts) = 2
    /\ Pair(call.attempts[1]) \in call.recorded_failed
    /\ ~call.attempts[1].ok
    /\ Pair(call.attempts[2]) \in call.recorded_failed

\* C24: the value returned by transfer_embedding does not depend on which
\* isomorphism between the embedded domain and the codomain it is given: any
\* two isomorphisms between the same fields give the same embedding of the
\* codomain's generator.
C24_IndependentOfIsomorphism ==
    (call.op = "transfer_embedding" /\ ~call.raised) =>
        \A image \in RootsIn(defining_polynomial(call.arguments.isomorphism.domain),
                             call.arguments.isomorphism.codomain) :
            transfer_embedding([call.arguments.isomorphism EXCEPT !.image = image])
              = [raised |-> FALSE, ret |-> call.ret]

\* C25: every attempt made by compute_quaternion_algebra,
\* compute_invariant_quaternion_algebra and compute_denominators is entered in
\* a prec record under the (prec, degree) it used, also when it failed and also
\* when it was made with the trace field already known.
C25_EveryAttemptRecorded ==
    (call.op \in AttributeDrivers /\ call.pc = "done" /\ ~call.raised) =>
        \A i \in 1..Len(call.attempts) :
            Pair(call.attempts[i]) \in
                (DOMAIN trace_field_prec_record)
                    \cup (DOMAIN invariant_trace_field_prec_record)

\* The words whose traces the entries of a stored algebra were computed from.
SelectedWords(algebra) ==
    {algebra[1].a[1].exactly.trace_of[i] :
         i \in 1..Len(algebra[1].a[1].exactly.trace_of)}
    \cup {algebra[1].b[1].exactly.trace_of[i] :
              i \in 1..Len(algebra[1].b[1].exactly.trace_of)}

\* C26: compute_approximate_hilbert_symbol(power=n) selects its two words in
\* the n-th term of the subgroup series: the invariant quaternion algebra
\* (power=2) is built from words of the second term, the quaternion algebra
\* (power=1) from words of the whole group.
C26_WordsFromPowerTerm ==
    /\ quaternion_algebra # None =>
          \A w \in SelectedWords(quaternion_algebra) : w.term = 1
    /\ invariant_quaternion_algebra # None =>
          \A w \in SelectedWords(invariant_quaternion_algebra) : w.term = 2

\* C27: with the trace field known, a step of compute_quaternion_algebra (or
\* a call of compute_quaternion_algebra_fixed_prec) makes no recognition
\* attempt: trace_field, its numerical root, its generators and its prec record
\* are as before, whether the build succeeds or fails.  Likewise the invariant
\* variant with the invariant trace field, and the denominators step with the
\* generators known.
C27_KnownFieldNotRecomputed ==
    [][AttemptMade =>
         /\ (/\ call'.op \in {"compute_quaternion_algebra",
                              "compute_quaternion_algebra_fixed_prec"}
             /\ Truthy(trace_field)) => UNCHANGED trace_field_vars
         /\ (/\ call'.op \in {"compute_invariant_quaternion_algebra",
                              "compute_invariant_quaternion_algebra_fixed_prec"}
             /\ Truthy(invariant_trace_field)) => UNCHANGED invariant_trace_field_vars
         /\ (/\ call'.op \in {"compute_denominators",
                              "compute_denominators_fixed_prec"}
             /\ TruthyList(trace_field_generators)) => UNCHANGED trace_field_vars]_vars

C27_Witness ==
    /\ call.op = "compute_quaternion_algebra_fixed_prec"
    /\ ncalls = 2
    /\ call.attempts[1].recognition = "skipped"
    /\ call.attempts[1].words = "found"
    /\ ~call.attempts[1].ok
    /\ trace_field # None
    /\ quaternion_algebra = None
    /\ Pair(call.attempts[1]) \notin DOMAIN trace_field_prec_record

\* ceil(a / b) for a >= 0 and b >= 1.
Ceil(a, b) == (a + b - 1) \div b

Max(a, b) == IF a >= b THEN a ELSE b

\* 1 + max(ceil((max_prec - starting_prec) / prec_increment),
\*         ceil((max_degree - starting_degree) / degree_increment)).
AttemptBound(c) ==
    1 + Max(Ceil(c.max_prec - c.starting_prec, c.prec_increment),
            Ceil(c.max_degree - c.starting_degree, c.degree_increment))

WellFormed(c) ==
    /\ c.starting_prec <= c.max_prec
    /\ c.starting_degree <= c.max_degree
    /\ c.prec_increment >= 1
    /\ c.degree_increment >= 1

\* C28: termination of escalation.  A driver invoked with starting values
\* not above the maxima and increments of at least 1 makes, whatever the
\* outcomes of its fixed-precision steps, at most
\* 1 + max(ceil((max_prec - starting_prec) / prec_increment),
\*         ceil((max_degree - starting_degree) / degree_increment)) attempts,
\* and its invocation eventually ends, with a returned value unless a step
\* raised.
C28_EscalationTerminates ==
    /\ []((DriverCall /\ WellFormed(call)) =>
             /\ Len(call.attempts) <= AttemptBound(call)
             /\ (call.pc = "done" /\ ~call.raised /\ Len(call.attempts) > 0) =>
                   (call.ret # None \/ Exhausted(LastAttempt(call).prec,
                                                 LastAttempt(call).degree,
                                                 call.max_prec, call.max_degree)))
    /\ ((DriverCall /\ WellFormed(call) /\ call.pc = "loop") ~> (call.pc = "done"))

C28_Witness ==
    /\ call.op = "compute_invariant_trace_field"
    /\ call.starting_prec < call.max_prec
    /\ call.starting_degree = call.max_degree
    /\ call.prec_increment = MaxIncrement
    /\ call.degree_increment = 1
    /\ call.pc = "done"
    /\ Len(call.attempts) = AttemptBound(call)
    /\ \A i \in 1..Len(call.attempts) : ~call.attempts[i].ok
    /\ call.ret = None

\* C29: compute_trace_field (compute_invariant_trace_field) returns a non-None
\* field only if a recognition attempt of that same invocation succeeded; when
\* every attempt of the invocation fails it escalates up to
\* (max_prec, max_degree) and returns None, whether or not a field was stored
\* on the instance before the call.
C29_ReturnsOnlyOwnSuccess ==
    (/\ call.op \in {"compute_trace_field", "compute_invariant_trace_field"}
     /\ call.pc = "done") =>
        /\ call.ret # None => \E i \in 1..Len(call.attempts) : call.attempts[i].ok
        /\ (\A i \in 1..Len(call.attempts) : ~call.attempts[i].ok) =>
              /\ call.ret = None
              /\ Exhausted(LastAttempt(call).prec, LastAttempt(call).degree,
                           call.max_prec, call.max_degree)

\* The three attributes of a field are all None, or all set with the root
\* being the primitive element of the field.
FieldTriple(field, root, generators) ==
    \/ field = None /\ root = None /\ generators = None
    \/ /\ field # None
       /\ root # None
       /\ generators # None
       /\ root[1] = NumericalRoot(field[1])

HasTrue(record) == \E key \in DOMAIN record : record[key]

\* C30: record consistency in every reachable state.  trace_field, its
\* numerical root and its generators are all None or all set by the same
\* successful attempt, likewise the three invariant_trace_field attributes;
\* quaternion_algebra is non-None only if trace_field is and its ramified
\* places and residue characteristics are, likewise invariant_quaternion_algebra
\* with invariant_trace_field; a non-None trace field implies its prec record
\* holds at least one True entry.
C30_RecordConsistency ==
    /\ FieldTriple(trace_field, trace_field_numerical_root, trace_field_generators)
    /\ FieldTriple(invariant_trace_field, invariant_trace_field_numerical_root,
                   invariant_trace_field_generators)
    /\ quaternion_algebra # None =>
          /\ trace_field # None
          /\ quaternion_algebra_ramified_places # None
          /\ quaternion_algebra_ramified_places_residue_characteristics # None
    /\ invariant_quaternion_algebra # None =>
          /\ invariant_trace_field # None
          /\ invariant_quaternion_algebra_ramified_places # None
          /\ invariant_quaternion_algebra_ramified_places_residue_characteristics # None
    /\ trace_field # None => HasTrue(trace_field_prec_record)
    /\ invariant_trace_field # None => HasTrue(invariant_trace_field_prec_record)

\* C30 as amended: the same consistency of the field triples and of the
\* algebras, and a non-None trace field implies that its prec record holds an
\* entry; the entry of the attempt that stored the field may since have been
\* overwritten with False by a failed attempt at the same (prec, degree).
C30_RecordConsistencyAmended ==
    /\ FieldTriple(trace_field, trace_field_numerical_root, trace_field_generators)
    /\ FieldTriple(invariant_trace_field, invariant_trace_field_numerical_root,
                   invariant_trace_field_generators)
    /\ quaternion_algebra # None =>
          /\ trace_field # None
          /\ quaternion_algebra_ramified_places # None
          /\ quaternion_algebra_ramified_places_residue_characteristics # None
    /\ invariant_quaternion_algebra # None =>
          /\ invariant_trace_field # None
          /\ invariant_quaternion_algebra_ramified_places # None
          /\ invariant_quaternion_algebra_ramified_places_residue_characteristics # None
    /\ trace_field # None => DOMAIN trace_field_prec_record # {}
    /\ invariant_trace_field # None => DOMAIN invariant_trace_field_prec_record # {}

C30_Witness ==
    /\ quaternion_algebra # None
    /\ trace_field # None
    /\ call.op = "compute_trace_field_fixed_prec"
    /\ ~call.attempts[1].ok
    /\ DOMAIN trace_field_prec_record # {}
    /\ ~HasTrue(trace_field_prec_record)

====
